---- MODULE Spec2Model ----
(***************************************************************************)
(* Model of scripts/embed_aliases.py: the alias indexing pipeline.         *)
(*                                                                         *)
(* One process execution ("run") is: module-level startup (configuration   *)
(* check, ensure collection), then main(): fetch the track ids, and for    *)
(* each id index_song(): fetch aliases, embed every alias, upsert.         *)
(* Every external call (vector store, HTTP) is a blocking call made inside  *)
(* one action, which ends when the call has returned or raised; its        *)
(* response is chosen by the environment.                                  *)
(*                                                                         *)
(* Text is a sequence of one-character strings, so that the f-string       *)
(* "{mid}-{alias}" is a real concatenation.                                *)
(***************************************************************************)
EXTENDS Integers, Sequences, FiniteSets, TLC

\* ------------------------------------------------------------------ bounds
MaxMid == 2
MaxTracks == 2
MaxAliases == 2
MaxRuns == 2

\* ------------------------------------------------------- program constants
VECTOR_SIZE == 1024
COLLECTION_NAME == "song_aliases"
COSINE == "Cosine"
SOURCE_TAG == <<"h", "a", "r", "u", "k", "i">>

\* ------------------------------------------------------------ value domains
Mids == 1..MaxMid
AliasTexts == {<<"a">>, <<"b">>}
NoText == <<>>

RECURSIVE SeqsUpTo(_, _)
SeqsUpTo(S, n) ==
    IF n = 0 THEN {<<>>}
    ELSE LET shorter == SeqsUpTo(S, n - 1)
         IN  shorter \cup {Append(s, x) : s \in {t \in shorter : Len(t) = n - 1}, x \in S}

\* A Python value handed to an f-string: an int or a str.
PyInt(n) == [t |-> "int", n |-> n, s |-> NoText]
PyStr(s) == [t |-> "str", n |-> 0, s |-> s]

Digits == <<"0", "1", "2", "3", "4", "5", "6", "7", "8", "9">>

\* str() of a non-negative int.
RECURSIVE IntToText(_)
IntToText(n) ==
    IF n < 10 THEN <<Digits[n + 1]>>
    ELSE IntToText(n \div 10) \o <<Digits[(n % 10) + 1]>>

\* f"{v}"
Format(v) == IF v.t = "int" THEN IntToText(v.n) ELSE v.s

\* hashlib.md5(raw).hexdigest() read as a UUID: a digest, taken as injective
\* on the raw bytes, so the id is represented by the bytes it digests.
Md5Uuid(raw) == raw

generate_uuid(mid, alias) == Md5Uuid(Format(mid) \o <<"-">> \o alias)

\* An embedding vector: its length and the text it embeds.
Vec(n, text) == [len |-> n, of |-> text]
NoVec == Vec(0, NoText)

\* models.PointStruct(id=..., vector=..., payload={mid, alias, source})
PointStruct(id, vector, mid, alias) ==
    [id |-> id, vector |-> vector,
     payload |-> [mid |-> mid, alias |-> alias, source |-> SOURCE_TAG]]

\* ------------------------------------------------------ external responses
\* A response of requests.get / requests.post: exc = the request itself raised;
\* otherwise an HTTP status and a body. body "invalid": resp.json() raises.

\* Track list (MUSICS_JSON_URL): a JSON list of objects, each with or without 'id'.
Item(m) == [hasId |-> TRUE, id |-> m]
NoIdItem == [hasId |-> FALSE, id |-> 0]
Items == {Item(m) : m \in Mids} \cup {NoIdItem}
MusicsResp(exc, status, body, items) ==
    [exc |-> exc, status |-> status, body |-> body, items |-> items]
AllMusicsResponses ==
    {MusicsResp(TRUE, 0, "none", <<>>), MusicsResp(FALSE, 500, "none", <<>>),
     MusicsResp(FALSE, 200, "invalid", <<>>), MusicsResp(FALSE, 200, "nonobjects", <<>>)}
    \cup {MusicsResp(FALSE, 200, "list", s) : s \in SeqsUpTo(Items, MaxTracks)}

\* Alias endpoint ({HARUKI_API_BASE}/{mid}): a JSON object with or without 'aliases'.
AliasResp(exc, status, body, aliases) ==
    [exc |-> exc, status |-> status, body |-> body, aliases |-> aliases]
AllAliasResponses ==
    {AliasResp(TRUE, 0, "none", <<>>), AliasResp(FALSE, 404, "none", <<>>),
     AliasResp(FALSE, 500, "none", <<>>), AliasResp(FALSE, 200, "invalid", <<>>),
     AliasResp(FALSE, 200, "nokey", <<>>)}
    \cup {AliasResp(FALSE, 200, "dict", s) : s \in SeqsUpTo(AliasTexts, MaxAliases)}

\* Embedding endpoint: {data: [{embedding: [...]}]}.
\* body "nodata": 'data' absent or empty; "noembedding": data[0] has no 'embedding'.
EmbResp(exc, status, body, vec) ==
    [exc |-> exc, status |-> status, body |-> body, vec |-> vec]
AllEmbeddingResponses(text) ==
    {EmbResp(TRUE, 0, "none", NoVec), EmbResp(FALSE, 500, "none", NoVec),
     EmbResp(FALSE, 200, "invalid", NoVec), EmbResp(FALSE, 200, "nodata", NoVec),
     EmbResp(FALSE, 200, "noembedding", NoVec),
     EmbResp(FALSE, 200, "data", Vec(0, text)),
     EmbResp(FALSE, 200, "data", Vec(VECTOR_SIZE, text)),
     EmbResp(FALSE, 200, "data", Vec(VECTOR_SIZE - 1, text))}

\* ------------------------------------------------------------ pure functions
Result(kind, vec) == [kind |-> kind, vec |-> vec]

\* get_embedding(text): what it returns for the response the service gave.
\* "raise": requests.post, resp.json() or the ["data"][0]["embedding"] lookup raised;
\* "none": returned None.
get_embedding(resp) ==
    IF resp.exc THEN Result("raise", NoVec)
    ELSE IF resp.status # 200 THEN Result("none", NoVec)
    ELSE IF resp.body = "invalid" THEN Result("raise", NoVec)
    ELSE IF resp.body = "nodata" THEN Result("none", NoVec)
    ELSE IF resp.body = "noembedding" THEN Result("raise", NoVec)
    ELSE Result("value", resp.vec)

\* `not vec` in index_song: None or an empty list.
Falsy(res) == res.kind = "none" \/ res.vec.len = 0

\* [item['id'] for item in musics if 'id' in item]
RECURSIVE IdsOf(_)
IdsOf(items) ==
    IF items = <<>> THEN <<>>
    ELSE (IF Head(items).hasId THEN <<Head(items).id>> ELSE <<>>) \o IdsOf(Tail(items))

Ascending(a, b) == a < b

Fetched(raised, list) == [raised |-> raised, ids |-> list]

fetch_music_ids_unsorted(resp) ==
    IF resp.exc THEN Fetched(TRUE, <<>>)
    ELSE IF resp.status # 200 THEN Fetched(FALSE, <<>>)
    ELSE IF resp.body # "list" THEN Fetched(FALSE, <<>>)
    ELSE Fetched(FALSE, IdsOf(resp.items))

\* fetch_music_ids(): raised = the exception of requests.get, which is outside
\* the try block; everything from resp.json() on is inside it.
fetch_music_ids(resp) ==
    IF resp.exc THEN Fetched(TRUE, <<>>)
    ELSE IF resp.status # 200 THEN Fetched(FALSE, <<>>)
    ELSE IF resp.body # "list" THEN Fetched(FALSE, <<>>)
    ELSE Fetched(FALSE, SortSeq(IdsOf(resp.items), Ascending))

AliasFetch_status_unchecked(resp) ==
    IF resp.exc THEN "raise"
    ELSE IF resp.body \in {"invalid", "none"} THEN "raise"
    ELSE IF resp.body = "nokey" \/ resp.aliases = <<>> THEN "zero"
    ELSE "aliases"

\* index_song lines 77-89: how the alias response is taken.
\* "raise": requests.get or resp.json() raised; "zero": return 0;
\* "aliases": a non-empty alias list to embed.
AliasFetch(resp) ==
    IF resp.exc THEN "raise"
    ELSE IF resp.status = 404 THEN "zero"
    ELSE IF resp.status # 200 THEN "zero"
    ELSE IF resp.body = "invalid" THEN "raise"
    ELSE IF resp.body = "nokey" \/ resp.aliases = <<>> THEN "zero"
    ELSE "aliases"

Missing_key_only(cfg) == cfg.key \in {"unset", "empty"}

\* `not SILICONFLOW_KEY or not QDRANT_HOST`: unset (None) or empty.
Missing(cfg) == cfg.key \in {"unset", "empty"} \/ cfg.host \in {"unset", "empty"}

\* ----------------------------------------------------------- the vector store
StoreUpsert_replaces_track(st, batch) ==
    {q \in st : \A k \in DOMAIN batch : q.payload.mid # batch[k].payload.mid}
        \cup {batch[k] : k \in DOMAIN batch}

\* client.upsert(points=batch): a point replaces the stored point of the same id.
RECURSIVE StoreUpsert(_, _)
StoreUpsert(st, batch) ==
    IF batch = <<>> THEN st
    ELSE StoreUpsert({q \in st : q.id # Head(batch).id} \cup {Head(batch)}, Tail(batch))

\* The store takes only vectors of the collection's dimension.
Accepts(coll, batch) == \A k \in DOMAIN batch : batch[k].vector.len = coll.size

Absent == [exists |-> FALSE, size |-> 0, distance |-> "none"]
Created(size, distance) == [exists |-> TRUE, size |-> size, distance |-> distance]

\* ------------------------------------------------------------------- state
VARIABLES
    run,        \* number of this process execution, 1..MaxRuns
    pc,         \* where the process is: "start", "ensure", "main", "loop", "embed",
                \* "done" (exit 0), "exit1" (exit(1)), "crashed" (uncaught exception)
    config,     \* SILICONFLOW_KEY, QDRANT_HOST as read from the environment
    ids,        \* main: ids
    i,          \* main: position of the loop in ids
    aliases,    \* index_song: aliases
    j,          \* index_song: position of the loop in aliases
    points,     \* index_song: points
    embLog,     \* what get_embedding returned for each alias of the current track so far
    total,      \* main: total
    results,    \* what index_song(i) did for each id so far: returned count, or raised
    calls,      \* the external calls of this run, in order
    collection, \* the store: the collection COLLECTION_NAME
    store,      \* the store: the points of the collection
    store0,     \* the points of the collection when this run started
    storeT,     \* the points of the collection when index_song was last entered
    existed0,   \* whether the collection existed before the first run
    creates,    \* the create_collection calls of all runs
    script,     \* responses fixed for all runs (on), or chosen freely per call
    prev,       \* what the previous run left, kept when the script is on
    probe       \* inputs and outputs of generate_uuid alone

vars == <<run, pc, config, ids, i, aliases, j, points, embLog, total, results, calls,
          collection, store, store0, storeT, existed0, creates, script, prev, probe>>

trackVars == <<aliases, j, points, embLog, storeT>>
ghostVars == <<store0, existed0, script, prev, probe, run>>

\* An external call: ok = it returned (did not raise); status, body = the
\* response a GET returned (0, "none" when it raised, and for the other calls:
\* what get_embedding made of its response is in embLog).
Call(op, mid, text, batch, ok, status, body) ==
    [op |-> op, mid |-> mid, text |-> text, batch |-> batch, ok |-> ok,
     status |-> status, body |-> body]
Outcome(mid, raised, count) == [mid |-> mid, raised |-> raised, count |-> count]

EnvValues == {"unset", "empty", "set"}
Terminal == {"done", "exit1", "crashed"}

\* Points left in the collection by earlier indexing: one whose alias is still
\* served (with an older vector), one whose alias is no longer in the source.
StalePoint == PointStruct(generate_uuid(PyInt(1), <<"a">>), Vec(VECTOR_SIZE, <<"o">>), 1, <<"a">>)
OrphanPoint == PointStruct(generate_uuid(PyInt(2), <<"z">>), Vec(VECTOR_SIZE, <<"z">>), 2, <<"z">>)
InitialStores == {{}, {StalePoint, OrphanPoint}}

NoScript ==
    [on |-> FALSE, musics |-> MusicsResp(TRUE, 0, "none", <<>>),
     alias |-> [m \in Mids |-> AliasResp(TRUE, 0, "none", <<>>)],
     emb |-> [t \in AliasTexts |-> EmbResp(TRUE, 0, "none", NoVec)]]
NoPrev == [valid |-> FALSE, pc |-> "start", ids |-> {}, results |-> <<>>, upserts |-> <<>>]
NoProbe == [stage |-> "off", x |-> <<PyInt(0), NoText>>, y |-> <<PyInt(0), NoText>>,
            idx |-> NoText, idy |-> NoText]

MusicsResponses == IF script.on THEN {script.musics} ELSE AllMusicsResponses
AliasResponses(mid) == IF script.on THEN {script.alias[mid]} ELSE AllAliasResponses
EmbeddingResponses(text) ==
    IF script.on THEN {script.emb[text]} ELSE AllEmbeddingResponses(text)

InitProcess ==
    /\ run = 1
    /\ pc = "start"
    /\ config = [key |-> "unset", host |-> "unset"]
    /\ ids = <<>> /\ i = 0
    /\ aliases = <<>> /\ j = 0 /\ points = <<>> /\ embLog = <<>>
    /\ total = 0 /\ results = <<>> /\ calls = <<>>
    /\ creates = <<>>
    /\ prev = NoPrev
    /\ \/ collection = Absent /\ store = {}
       \/ collection = Created(VECTOR_SIZE, COSINE) /\ store \in InitialStores
    /\ store0 = store
    /\ storeT = store
    /\ existed0 = collection.exists

Init ==
    /\ InitProcess
    /\ script = NoScript
    /\ probe = NoProbe

\* ----------------------------------------------------------------- actions
\* Lines 17-35: read the environment; exit(1) when the key or the host is missing.
Startup ==
    /\ pc = "start"
    /\ \E k \in EnvValues, h \in EnvValues :
         /\ config' = [key |-> k, host |-> h]
         /\ pc' = IF Missing(config') THEN "exit1" ELSE "ensure"
    /\ UNCHANGED <<ids, i, total, results, calls, collection, store, creates>>
    /\ UNCHANGED trackVars /\ UNCHANGED ghostVars

EnsureCollection_always_create ==
    /\ pc = "ensure"
    /\ \E created \in BOOLEAN :
         /\ calls' = calls \o <<Call("collection_exists", 0, NoText, <<>>, TRUE, 0, "none"),
                                Call("create_collection", 0, NoText, <<>>, created, 0, "none")>>
         /\ creates' = Append(creates, [run |-> run, size |-> VECTOR_SIZE,
                                        distance |-> COSINE, ok |-> created])
         /\ collection' = IF created THEN Created(VECTOR_SIZE, COSINE) ELSE collection
         /\ pc' = IF created THEN "main" ELSE "crashed"
    /\ UNCHANGED <<config, ids, i, total, results, store>>
    /\ UNCHANGED trackVars /\ UNCHANGED ghostVars

\* Lines 45-51: client.collection_exists, then client.create_collection when it
\* answered False. Either call may raise (the store unreachable), and nothing
\* catches it at module level.
EnsureCollection ==
    /\ pc = "ensure"
    /\ \/ /\ calls' = Append(calls, Call("collection_exists", 0, NoText, <<>>, FALSE, 0, "none"))
          /\ pc' = "crashed"
          /\ UNCHANGED <<collection, creates>>
       \/ /\ collection.exists
          /\ calls' = Append(calls, Call("collection_exists", 0, NoText, <<>>, TRUE, 0, "none"))
          /\ pc' = "main"
          /\ UNCHANGED <<collection, creates>>
       \/ /\ ~collection.exists
          /\ \E created \in BOOLEAN :
               /\ calls' = calls \o <<Call("collection_exists", 0, NoText, <<>>, TRUE, 0, "none"),
                                      Call("create_collection", 0, NoText, <<>>, created, 0, "none")>>
               /\ creates' = Append(creates, [run |-> run, size |-> VECTOR_SIZE,
                                              distance |-> COSINE, ok |-> created])
               /\ collection' = IF created THEN Created(VECTOR_SIZE, COSINE) ELSE collection
               /\ pc' = IF created THEN "main" ELSE "crashed"
    /\ UNCHANGED <<config, ids, i, total, results, store>>
    /\ UNCHANGED trackVars /\ UNCHANGED ghostVars

\* main, lines 134-137: ids = fetch_music_ids(); total = 0.
FetchMusicIds ==
    /\ pc = "main"
    /\ \E resp \in MusicsResponses :
         LET got == fetch_music_ids(resp)
         IN  /\ calls' = Append(calls, Call("get_musics", 0, NoText, <<>>, ~resp.exc, resp.status, resp.body))
             /\ ids' = got.ids
             /\ pc' = IF got.raised THEN "crashed" ELSE "loop"
    /\ i' = 1
    /\ total' = 0
    /\ UNCHANGED <<config, results, collection, store, creates>>
    /\ UNCHANGED trackVars /\ UNCHANGED ghostVars

TrackEnds_exits_on_error(raised, count) ==
    /\ results' = Append(results, Outcome(ids[i], raised, count))
    /\ total' = IF ~raised /\ count > 0 THEN total + count ELSE total
    /\ i' = i + 1
    /\ pc' = IF raised THEN "exit1" ELSE "loop"

TrackEnds_uncaught(raised, count) ==
    /\ results' = Append(results, Outcome(ids[i], raised, count))
    /\ total' = IF ~raised /\ count > 0 THEN total + count ELSE total
    /\ i' = IF raised THEN i ELSE i + 1
    /\ pc' = IF raised THEN "crashed" ELSE "loop"

\* main, lines 139-146: index_song(i) has returned count, or raised; the
\* try/except takes the exception, and the loop goes on to the next id.
TrackEnds(raised, count) ==
    /\ results' = Append(results, Outcome(ids[i], raised, count))
    /\ total' = IF ~raised /\ count > 0 THEN total + count ELSE total
    /\ i' = i + 1
    /\ pc' = "loop"

NewPoint_fresh_id(mid, alias, vec) ==
    PointStruct(generate_uuid(PyInt(mid), alias) \o <<"#">> \o IntToText(run), vec, mid, alias)

NewPoint_payload_without_alias(mid, alias, vec) ==
    PointStruct(generate_uuid(PyInt(mid), alias), vec, mid, NoText)

\* index_song, lines 97-107: the point of one alias.
NewPoint(mid, alias, vec) == PointStruct(generate_uuid(PyInt(mid), alias), vec, mid, alias)

\* main's loop takes the next id; index_song, lines 76-91: the alias fetch.
IndexSongFetch ==
    /\ pc = "loop"
    /\ i <= Len(ids)
    /\ \E resp \in AliasResponses(ids[i]) :
         LET how == AliasFetch(resp)
         IN  /\ calls' = Append(calls, Call("get_aliases", ids[i], NoText, <<>>, ~resp.exc,
                                      resp.status, resp.body))
             /\ aliases' = IF how = "aliases" THEN resp.aliases ELSE <<>>
             /\ \/ /\ how = "raise"
                   /\ TrackEnds(TRUE, 0)
                \/ /\ how = "zero"
                   /\ TrackEnds(FALSE, 0)
                \/ /\ how = "aliases"
                   /\ pc' = "embed"
                   /\ UNCHANGED <<i, total, results>>
    /\ j' = 1
    /\ points' = <<>>
    /\ embLog' = <<>>
    /\ storeT' = store
    /\ UNCHANGED <<config, ids, collection, store, creates>>
    /\ UNCHANGED ghostVars

EmbedAlias_upserts_each_point ==
    /\ pc = "embed"
    /\ j <= Len(aliases)
    /\ \E resp \in EmbeddingResponses(aliases[j]) :
         LET res == get_embedding(resp)
             emb == Call("post_embedding", ids[i], aliases[j], <<>>, ~resp.exc, 0, "none")
             pt == NewPoint(ids[i], aliases[j], res.vec)
         IN  /\ embLog' = Append(embLog, res)
             /\ \/ /\ res.kind = "raise"
                   /\ calls' = Append(calls, emb)
                   /\ TrackEnds(TRUE, 0)
                   /\ UNCHANGED <<j, points, store>>
                \/ /\ res.kind # "raise"
                   /\ Falsy(res)
                   /\ calls' = Append(calls, emb)
                   /\ j' = j + 1
                   /\ UNCHANGED <<points, pc, i, total, results, store>>
                \/ /\ res.kind # "raise"
                   /\ ~Falsy(res)
                   /\ Accepts(collection, <<pt>>)
                   /\ calls' = calls \o <<emb, Call("upsert", ids[i], NoText, <<pt>>, TRUE, 0, "none")>>
                   /\ store' = StoreUpsert(store, <<pt>>)
                   /\ j' = j + 1
                   /\ UNCHANGED <<points, pc, i, total, results>>
    /\ UNCHANGED <<config, ids, aliases, collection, storeT, creates>>
    /\ UNCHANGED ghostVars

\* index_song, lines 92-107: one pass of the alias loop.
EmbedAlias ==
    /\ pc = "embed"
    /\ j <= Len(aliases)
    /\ \E resp \in EmbeddingResponses(aliases[j]) :
         LET res == get_embedding(resp)
         IN  /\ calls' = Append(calls, Call("post_embedding", ids[i], aliases[j], <<>>, ~resp.exc,
                                      0, "none"))
             /\ embLog' = Append(embLog, res)
             /\ \/ /\ res.kind = "raise"
                   /\ TrackEnds(TRUE, 0)
                   /\ UNCHANGED <<j, points>>
                \/ /\ res.kind # "raise"
                   /\ Falsy(res)
                   /\ j' = j + 1
                   /\ UNCHANGED <<points, pc, i, total, results>>
                \/ /\ res.kind # "raise"
                   /\ ~Falsy(res)
                   /\ points' = Append(points, NewPoint(ids[i], aliases[j], res.vec))
                   /\ j' = j + 1
                   /\ UNCHANGED <<pc, i, total, results>>
    /\ UNCHANGED <<config, ids, aliases, collection, store, storeT, creates>>
    /\ UNCHANGED ghostVars

UpsertBatch_returns_alias_count ==
    /\ pc = "embed"
    /\ j > Len(aliases)
    /\ \/ /\ points = <<>>
          /\ TrackEnds(FALSE, 0)
          /\ UNCHANGED <<calls, store>>
       \/ /\ points # <<>>
          /\ \E ok \in (IF Accepts(collection, points) THEN BOOLEAN ELSE {FALSE}) :
               /\ calls' = Append(calls, Call("upsert", ids[i], NoText, points, ok, 0, "none"))
               /\ store' = IF ok THEN StoreUpsert(store, points) ELSE store
               /\ TrackEnds(~ok, IF ok THEN Len(aliases) ELSE 0)
    /\ UNCHANGED <<config, ids, collection, creates>>
    /\ UNCHANGED trackVars /\ UNCHANGED ghostVars

UpsertBatch_failure_swallowed ==
    /\ pc = "embed"
    /\ j > Len(aliases)
    /\ \/ /\ points = <<>>
          /\ TrackEnds(FALSE, 0)
          /\ UNCHANGED <<calls, store>>
       \/ /\ points # <<>>
          /\ \E ok \in (IF Accepts(collection, points) THEN BOOLEAN ELSE {FALSE}) :
               /\ calls' = Append(calls, Call("upsert", ids[i], NoText, points, ok, 0, "none"))
               /\ store' = IF ok THEN StoreUpsert(store, points) ELSE store
               /\ TrackEnds(FALSE, Len(points))
    /\ UNCHANGED <<config, ids, collection, creates>>
    /\ UNCHANGED trackVars /\ UNCHANGED ghostVars

\* index_song, lines 109-115: upsert the batch when there is one; return len(points).
UpsertBatch ==
    /\ pc = "embed"
    /\ j > Len(aliases)
    /\ \/ /\ points = <<>>
          /\ TrackEnds(FALSE, 0)
          /\ UNCHANGED <<calls, store>>
       \/ /\ points # <<>>
          /\ \E ok \in (IF Accepts(collection, points) THEN BOOLEAN ELSE {FALSE}) :
               /\ calls' = Append(calls, Call("upsert", ids[i], NoText, points, ok, 0, "none"))
               /\ store' = IF ok THEN StoreUpsert(store, points) ELSE store
               /\ TrackEnds(~ok, IF ok THEN Len(points) ELSE 0)
    /\ UNCHANGED <<config, ids, collection, creates>>
    /\ UNCHANGED trackVars /\ UNCHANGED ghostVars

\* main, line 148: the loop is over; the total is reported and the process ends.
Complete ==
    /\ pc = "loop"
    /\ i > Len(ids)
    /\ pc' = "done"
    /\ UNCHANGED <<config, ids, i, total, results, calls, collection, store, creates>>
    /\ UNCHANGED trackVars /\ UNCHANGED ghostVars

UpsertOutcomes(log) == SelectSeq(log, LAMBDA c : c.op = "upsert")
StoreIds(st) == {q.id : q \in st}

\* The script is run again against the same store.
Restart ==
    /\ pc \in Terminal
    /\ run < MaxRuns
    /\ run' = run + 1
    /\ pc' = "start"
    /\ prev' = IF script.on
               THEN [valid |-> TRUE, pc |-> pc, ids |-> StoreIds(store), results |-> results,
                     upserts |-> [k \in DOMAIN UpsertOutcomes(calls) |-> UpsertOutcomes(calls)[k].ok]]
               ELSE prev
    /\ store0' = store
    /\ storeT' = store
    /\ config' = [key |-> "unset", host |-> "unset"]
    /\ ids' = <<>> /\ i' = 0
    /\ aliases' = <<>> /\ j' = 0 /\ points' = <<>> /\ embLog' = <<>>
    /\ total' = 0 /\ results' = <<>> /\ calls' = <<>>
    /\ UNCHANGED <<collection, store, creates, existed0, script, probe>>

Next ==
    \/ Startup
    \/ EnsureCollection
    \/ FetchMusicIds
    \/ IndexSongFetch
    \/ EmbedAlias
    \/ UpsertBatch
    \/ Complete

\* One execution of the script, every response free.
Spec == Init /\ [][Next]_vars

\* One execution in which every blocking call ends (returns or raises) and the
\* interpreter keeps running the script: a step that can be taken is taken.
SpecLive == Init /\ [][Next]_vars /\ WF_vars(Next)

\* ------------------------------------------------- repeated runs, same inputs
\* The responses of the three HTTP services are fixed for all runs: one track
\* list, one alias response per id, one embedding response per text. The
\* environment variables and the store's availability stay free per run.
ScriptMusics ==
    {MusicsResp(TRUE, 0, "none", <<>>),
     MusicsResp(FALSE, 200, "list", <<Item(1)>>),
     MusicsResp(FALSE, 200, "list", <<Item(2), Item(1)>>),
     MusicsResp(FALSE, 200, "list", <<Item(1), Item(1)>>)}
ScriptAlias ==
    {AliasResp(FALSE, 404, "none", <<>>),
     AliasResp(FALSE, 200, "invalid", <<>>),
     AliasResp(FALSE, 200, "dict", <<<<"a">>>>),
     AliasResp(FALSE, 200, "dict", <<<<"a">>, <<"b">>>>),
     AliasResp(FALSE, 200, "dict", <<<<"a">>, <<"a">>>>)}
ScriptEmb(text) ==
    {EmbResp(TRUE, 0, "none", NoVec), EmbResp(FALSE, 500, "none", NoVec),
     EmbResp(FALSE, 200, "data", Vec(VECTOR_SIZE, text))}
Scripts ==
    {[on |-> TRUE, musics |-> m, alias |-> a, emb |-> e] :
        m \in ScriptMusics, a \in [Mids -> ScriptAlias],
        e \in {f \in [AliasTexts -> UNION {ScriptEmb(t) : t \in AliasTexts}] :
                 \A t \in AliasTexts : f[t] \in ScriptEmb(t)}}

InitRuns ==
    /\ InitProcess
    /\ script \in Scripts
    /\ probe = NoProbe

NextRuns == Next \/ Restart

\* The script executed up to MaxRuns times against the same store, the
\* services answering the same every time.
SpecRuns == InitRuns /\ [][NextRuns]_vars

\* ------------------------------------------------------- what the claims use
Last(s) == s[Len(s)]

RECURSIVE SumCounts(_)
SumCounts(rs) ==
    IF rs = <<>> THEN 0
    ELSE (IF Head(rs).raised THEN 0 ELSE Head(rs).count) + SumCounts(Tail(rs))

NoDuplicateIds(st) == \A p \in st, q \in st : p.id = q.id => p = q

\* The position in ids of the track that call k of this run belongs to.
TrackOf(k) == Cardinality({m \in 1..k : calls[m].op = "get_aliases"})

\* get_embedding gave a vector index_song keeps.
Succeeded(res) == res.kind = "value" /\ res.vec.len > 0

\* The points of the aliases embedded so far, in alias list order.
RECURSIVE ExpectedBatch(_, _, _)
ExpectedBatch(mid, als, log) ==
    IF log = <<>> THEN <<>>
    ELSE (IF Succeeded(Head(log))
          THEN <<[id |-> generate_uuid(PyInt(mid), Head(als)), vector |-> Head(log).vec,
                  payload |-> [mid |-> mid, alias |-> Head(als), source |-> SOURCE_TAG]]>>
          ELSE <<>>) \o ExpectedBatch(mid, Tail(als), Tail(log))

UpsertOks(log) == [k \in DOMAIN UpsertOutcomes(log) |-> UpsertOutcomes(log)[k].ok]

\* This run and the one before it both ran main() to its end.
TwoFullRuns == pc = "done" /\ prev.valid /\ prev.pc = "done"

\* ------------------------------------------------------------------ claims

\* C1, as stated: with the same ids, alias responses and embedding results, the
\* second full run leaves the same set of point ids in the store as the first,
\* index_song gives the same count for every track, and no id is stored twice.
C1_Original ==
    TwoFullRuns =>
        /\ StoreIds(store) = prev.ids
        /\ results = prev.results
        /\ NoDuplicateIds(store)

\* C1, amended: the same, when in addition every upsert call has the same outcome
\* in both runs (the store answers the second run as it answered the first).
C1_Idempotent ==
    (TwoFullRuns /\ UpsertOks(calls) = prev.upserts) =>
        /\ StoreIds(store) = prev.ids
        /\ results = prev.results
        /\ NoDuplicateIds(store)

\* C1, witness: two full runs on the same inputs, both upserting points over a stale point.
C1_Witness ==
    /\ TwoFullRuns
    /\ UpsertOks(calls) = prev.upserts
    /\ Len(prev.upserts) = 2
    /\ \A k \in DOMAIN prev.upserts : prev.upserts[k]
    /\ StalePoint.id \in prev.ids
    /\ StalePoint \notin store
    /\ Cardinality(store) > 2

\* C2, as stated: when the embedding of one alias fails, every other alias of the
\* track whose embedding succeeded is in the track's upsert.
C2_Original ==
    (pc = "loop" /\ results # <<>>) =>
        \A k \in DOMAIN embLog :
            Succeeded(embLog[k]) =>
                /\ Last(calls).op = "upsert"
                /\ \E n \in DOMAIN Last(calls).batch :
                     Last(calls).batch[n] =
                        [id |-> generate_uuid(PyInt(Last(results).mid), aliases[k]),
                         vector |-> embLog[k].vec,
                         payload |-> [mid |-> Last(results).mid, alias |-> aliases[k],
                                      source |-> SOURCE_TAG]]

\* C3: an id whose alias fetch answers 404: index_song returns 0, the next call
\* of the run (if any) is the alias fetch of the next id, so no embedding and no
\* upsert is made for it; the total is the sum of the counts returned, to which
\* it adds 0; and the loop goes on to the end of the list.
C3_NotFound ==
    /\ \A k \in DOMAIN calls :
         (calls[k].op = "get_aliases" /\ calls[k].ok /\ calls[k].status = 404) =>
             LET n == TrackOf(k)
             IN  /\ n <= Len(ids) /\ ids[n] = calls[k].mid
                 /\ n <= Len(results) /\ results[n] = Outcome(ids[n], FALSE, 0)
                 /\ k < Len(calls) =>
                        /\ calls[k + 1].op = "get_aliases"
                        /\ calls[k + 1].mid = ids[n + 1]
                 /\ k = Len(calls) => (pc \in {"loop", "done"} /\ i = n + 1)
    /\ total = SumCounts(results)
    /\ pc = "done" => Len(results) = Len(ids)

\* C3, witness: the first id answered 404, the second was indexed after it.
C3_Witness ==
    /\ pc = "done"
    /\ Len(results) = 2
    /\ \E k \in DOMAIN calls :
         calls[k].op = "get_aliases" /\ calls[k].status = 404 /\ TrackOf(k) = 1
    /\ results[2].count = 2
    /\ total = 2

\* C4: a failure raised while one id is processed never ends the run: the
\* process crashes only before the loop; a track that raised adds 0 to the total;
\* the tracks are taken in the order of ids, one outcome each, up to the end.
C4_Contained ==
    /\ pc = "crashed" => results = <<>>
    /\ \A n \in DOMAIN results :
         /\ n <= Len(ids) /\ results[n].mid = ids[n]
         /\ results[n].raised => results[n].count = 0
    /\ total = SumCounts(results)
    /\ pc \in {"loop", "embed", "done"} =>
         Len(results) = (IF pc = "embed" THEN i - 1 ELSE IF pc = "done" THEN Len(ids) ELSE i - 1)
    /\ pc \in {"loop", "embed"} => i <= Len(ids) + 1

\* C4, witness: the upsert of the first track failed, and the second track was still indexed.
C4_Witness ==
    /\ pc = "done"
    /\ Len(results) = 2
    /\ results[1].raised
    /\ \E k \in DOMAIN calls : calls[k].op = "upsert" /\ ~calls[k].ok /\ TrackOf(k) = 1
    /\ ~results[2].raised /\ results[2].count > 0
    /\ total = results[2].count

CreateCalls(log) == SelectSeq(log, LAMBDA c : c.op = "create_collection")

\* C5, as stated: create_collection is called exactly once if the collection
\* was absent at first (in the first run, with dimension 1024 and cosine), never
\* if it was present, and a run that follows a pipeline run never calls it.
C5_Original ==
    /\ existed0 => creates = <<>>
    /\ Len(creates) <= 1
    /\ \A k \in DOMAIN creates :
         creates[k].size = 1024 /\ creates[k].distance = "Cosine"
    /\ (prev.valid /\ prev.pc # "exit1") => CreateCalls(calls) = <<>>
    /\ (~existed0 /\ pc \in {"main", "loop", "embed", "done"}) => Len(creates) = 1

\* C5, amended: a run calls create_collection at most once, only when the
\* collection does not exist, with dimension 1024 and cosine; no creation call
\* follows one that succeeded, so at most one succeeds over all runs, and none is
\* made when the collection was present at first; main() only runs with the
\* collection in place. (A run whose store call raised leaves the creation to
\* the next run.)
C5_Bootstrap ==
    /\ existed0 => creates = <<>>
    /\ \A k \in DOMAIN creates :
         /\ creates[k].size = 1024 /\ creates[k].distance = "Cosine"
         /\ k < Len(creates) => ~creates[k].ok /\ creates[k].run < creates[k + 1].run
    /\ Len(CreateCalls(calls)) <= 1
    /\ (collection.exists /\ ~existed0) => (creates # <<>> /\ Last(creates).ok)
    /\ (creates # <<>> /\ Last(creates).ok) => collection.exists
    /\ pc \in {"main", "loop", "embed", "done"} => collection.exists

\* C5, witness: the first run created the collection; the second run finished without a
\* creation call.
C5_Witness ==
    /\ run = 2 /\ pc = "done"
    /\ ~existed0
    /\ Len(creates) = 1 /\ creates[1].run = 1 /\ creates[1].ok
    /\ CreateCalls(calls) = <<>>
    /\ \E k \in DOMAIN calls : calls[k].op = "collection_exists" /\ calls[k].ok

\* An embedding call of the current track raised (C2 is about that case).
RaisedInLoop == embLog # <<>> /\ Last(embLog).kind = "raise"

\* The track that has just ended got a non-empty alias list, and every one of
\* its embedding calls returned.
TrackEmbedded == pc = "loop" /\ results # <<>> /\ aliases # <<>> /\ ~RaisedInLoop

C7_FatalStartup ==
    /\ (pc # "start" /\ (config.key \in {"unset", "empty"} \/ config.host \in {"unset", "empty"}))
         => (pc = "exit1" /\ calls = <<>>)
    /\ pc = "exit1" => (config.key # "set" \/ config.host # "set")

\* C7, witness: the key is set, the host is empty: exit(1), nothing called.
C7_Witness ==
    /\ pc = "exit1"
    /\ config.key = "set" /\ config.host = "empty"
    /\ calls = <<>>

\* The index in calls of the alias fetch of the current track (0: none yet).
LastFetch ==
    LET F == {k \in DOMAIN calls : calls[k].op = "get_aliases"}
    IN  IF F = {} THEN 0 ELSE CHOOSE k \in F : \A m \in F : m <= k

C9_Original ==
    \A k \in DOMAIN calls :
        (calls[k].op = "get_musics"
         /\ (~calls[k].ok \/ calls[k].status # 200 \/ calls[k].body # "list")) =>
            /\ ids = <<>>
            /\ pc \in {"loop", "done"}
            /\ total = 0
            /\ k = Len(calls)

\* The part of C9 the code keeps: a status other than 200 or an unusable body.
C9_Handled ==
    \A k \in DOMAIN calls :
        (calls[k].op = "get_musics" /\ calls[k].ok
         /\ (calls[k].status # 200 \/ calls[k].body # "list")) =>
            /\ ids = <<>>
            /\ pc \in {"loop", "done"}
            /\ total = 0
            /\ k = Len(calls)

\* The calls of the track that has just ended: those from LastFetch on.
TrackCalls == {k \in DOMAIN calls : k >= LastFetch /\ LastFetch > 0}

\* A track has just ended (index_song returned or raised).
TrackOver == pc = "loop" /\ results # <<>>

\* C11, as stated, a track being one entry of the id list: no two upsert calls
\* for one track, no upsert call with an empty batch, and an upsert call for a
\* track if and only if some alias of it produced a point.
C11_Original ==
    /\ \A k \in DOMAIN calls : calls[k].op = "upsert" => calls[k].batch # <<>>
    /\ \A k \in DOMAIN calls, m \in DOMAIN calls :
         (k < m /\ calls[k].op = "upsert" /\ calls[m].op = "upsert") => TrackOf(k) # TrackOf(m)
    /\ TrackOver => ((\E k \in TrackCalls : calls[k].op = "upsert") <=> points # <<>>)

\* The part of C11 the code keeps: the same, with an upsert call for a track if
\* and only if some alias produced a point and no embedding call of it raised.
C11_Discipline ==
    /\ \A k \in DOMAIN calls : calls[k].op = "upsert" => calls[k].batch # <<>>
    /\ \A k \in DOMAIN calls, m \in DOMAIN calls :
         (k < m /\ calls[k].op = "upsert" /\ calls[m].op = "upsert") => TrackOf(k) # TrackOf(m)
    /\ TrackOver =>
         ((\E k \in TrackCalls : calls[k].op = "upsert") <=> (points # <<>> /\ ~RaisedInLoop))

\* The sum of the batch sizes of the upsert calls that returned.
RECURSIVE SumBatches(_)
SumBatches(log) ==
    IF log = <<>> THEN 0
    ELSE (IF Head(log).op = "upsert" /\ Head(log).ok THEN Len(Head(log).batch) ELSE 0)
         + SumBatches(Tail(log))

\* The upsert calls of the n-th track that returned.
UpsertedFor(n) == {k \in DOMAIN calls : calls[k].op = "upsert" /\ calls[k].ok /\ TrackOf(k) = n}

\* C12: in every state the total is the sum of the batch sizes of the upsert
\* calls that have returned so far (so it is at completion); a track adds the
\* size of its batch when its upsert returned, and nothing when index_song
\* returned 0 or raised.
C12_Total ==
    /\ total = SumBatches(calls)
    /\ \A n \in DOMAIN results :
         IF UpsertedFor(n) = {}
         THEN results[n].raised \/ results[n].count = 0
         ELSE \A k \in UpsertedFor(n) : results[n] = Outcome(ids[n], FALSE, Len(calls[k].batch))
    /\ pc = "done" => total = SumCounts(results)

\* C12, witness: the run is over; the first track's upsert of one point returned, the
\* second track's upsert raised: the total is 1.
C12_Witness ==
    /\ pc = "done"
    /\ Len(results) = 2
    /\ results[1] = Outcome(ids[1], FALSE, 1)
    /\ results[2].raised
    /\ Len(UpsertOutcomes(calls)) = 2
    /\ UpsertOutcomes(calls)[1].ok /\ ~UpsertOutcomes(calls)[2].ok
    /\ total = 1

\* The embedding calls of the track that has just ended, in call order.
TrackEmbeddings ==
    SelectSeq(SubSeq(calls, LastFetch + 1, Len(calls)), LAMBDA c : c.op = "post_embedding")

AliasFetches == SelectSeq(calls, LAMBDA c : c.op = "get_aliases")

\* C13, as stated, an alias being one occurrence in the list and a track one
\* entry of the id list: when a track has ended with an alias list fetched, its
\* embedding calls are one per occurrence, in list order; the alias fetches are
\* one per entry of ids taken so far, in the order of ids; and the batch
\* upserted holds no point of an occurrence whose embedding failed.
C13_Original ==
    /\ TrackOver =>
         /\ Len(TrackEmbeddings) = Len(aliases)
         /\ \A m \in DOMAIN TrackEmbeddings : TrackEmbeddings[m].text = aliases[m]
         /\ Last(calls).op = "upsert" =>
                Last(calls).batch = ExpectedBatch(Last(results).mid, aliases, embLog)
    /\ pc \in {"loop", "embed", "done"} =>
         /\ Len(AliasFetches) = (IF pc = "embed" THEN Len(results) + 1 ELSE Len(results))
         /\ \A n \in DOMAIN AliasFetches : AliasFetches[n].mid = ids[n]
    /\ pc = "done" => Len(AliasFetches) = Len(ids)

\* The part of C13 the code keeps: nothing is issued twice. The embedding calls
\* of a track are one per occurrence, in list order, up to the end of the list
\* or to the first call that raises (no occurrence after it is embedded at all).
C13_NoRetry ==
    /\ TrackOver =>
         /\ Len(TrackEmbeddings) = Len(embLog)
         /\ Len(TrackEmbeddings) <= Len(aliases)
         /\ Len(TrackEmbeddings) < Len(aliases) => RaisedInLoop
         /\ \A m \in DOMAIN TrackEmbeddings : TrackEmbeddings[m].text = aliases[m]
         /\ Last(calls).op = "upsert" =>
                Last(calls).batch = ExpectedBatch(Last(results).mid, aliases, embLog)
    /\ pc \in {"loop", "embed", "done"} =>
         /\ Len(AliasFetches) = (IF pc = "embed" THEN Len(results) + 1 ELSE Len(results))
         /\ \A n \in DOMAIN AliasFetches : AliasFetches[n].mid = ids[n]
    /\ pc = "done" => Len(AliasFetches) = Len(ids)

\* The ids of the points in the batches of the upsert calls that returned.
UpsertedIds ==
    UNION {{calls[k].batch[n].id : n \in DOMAIN calls[k].batch} :
             k \in {m \in DOMAIN calls : calls[m].op = "upsert" /\ calls[m].ok}}

StoreOps == {"collection_exists", "create_collection", "upsert"}
HttpOps == {"get_musics", "get_aliases", "post_embedding"}

\* C14: the calls made on the store are collection_exists, create_collection
\* and upsert only; a collection that exists is not created again and keeps its
\* dimension and metric; and every point the collection held when the run
\* started, whose id is in no batch upserted in the run, is still in it with the
\* same vector and payload.
C14_Frame ==
    /\ \A k \in DOMAIN calls : calls[k].op \in StoreOps \cup HttpOps
    /\ existed0 => (collection = Created(VECTOR_SIZE, COSINE) /\ CreateCalls(calls) = <<>>)
    /\ Len(CreateCalls(calls)) <= 1
    /\ \A p \in store0 : p.id \notin UpsertedIds => p \in store
    /\ \A p \in store : p \in store0 \/ p.id \in UpsertedIds

\* C14, witness: the run is over and has upserted points of both tracks, one of them
\* over the stale point; the point of the alias no longer served is still there.
C14_Witness ==
    /\ pc = "done"
    /\ store0 = {StalePoint, OrphanPoint}
    /\ Len(UpsertOutcomes(calls)) = 2
    /\ \A k \in DOMAIN UpsertOutcomes(calls) : UpsertOutcomes(calls)[k].ok
    /\ StalePoint.id \in UpsertedIds /\ StalePoint \notin store
    /\ OrphanPoint.id \notin UpsertedIds /\ OrphanPoint \in store
    /\ Cardinality(store) = 5

\* Every entry of ids has been attempted once, in order: one outcome and one
\* alias fetch per entry.
AttemptedEachOnce ==
    /\ Len(results) = Len(ids)
    /\ Len(AliasFetches) = Len(ids)
    /\ \A n \in DOMAIN ids : results[n].mid = ids[n] /\ AliasFetches[n].mid = ids[n]

\* C15: once fetch_music_ids has returned its list (startup done), whatever
\* the alias fetches, the embedding calls and the upserts answer, the run
\* reaches the final summary (normal completion), and there every entry of the list
\* has been attempted exactly once.
C15_Termination ==
    /\ [](pc = "done" => AttemptedEachOnce)
    /\ (pc = "loop") ~> (pc = "done")

\* C15, witness: the run reached the final summary after two tracks that both raised: the
\* alias fetch of the first, an embedding call of the second.
C15_Witness ==
    /\ pc = "done"
    /\ Len(ids) = 2 /\ AttemptedEachOnce
    /\ results[1].raised /\ results[2].raised
    /\ ~AliasFetches[1].ok
    /\ RaisedInLoop /\ Len(embLog) = 2
    /\ total = 0

\* C16, as stated: every point of every batch given to upsert has a vector of
\* length 1024, and so has every point the run has put in the store.
C16_Original ==
    /\ \A k \in DOMAIN calls :
         calls[k].op = "upsert" =>
            \A n \in DOMAIN calls[k].batch : calls[k].batch[n].vector.len = 1024
    /\ \A p \in store : p.vector.len = 1024

\* The part of C16 that holds, by the store's own check and not by this code:
\* the points in the collection have vectors of the collection's dimension.
C16_Stored == \A p \in store : p.vector.len = collection.size

\* index_song raised before its upsert call: the exception came from the alias
\* fetch or from an embedding call.
RaisedBeforeUpsert == TrackOver /\ Last(results).raised /\ Last(calls).op # "upsert"

\* C17: when index_song raised before its upsert call, no upsert call was made
\* for that track, the collection holds what it held when the track began, and
\* the track counts 0, also when earlier aliases of it had got their vectors.
C17_AllOrNothing ==
    RaisedBeforeUpsert =>
        /\ \A k \in TrackCalls : calls[k].op # "upsert"
        /\ store = storeT
        /\ Last(results) = Outcome(ids[Len(results)], TRUE, 0)
        /\ total = SumBatches(SubSeq(calls, 1, LastFetch))

\* C17, witness: the first alias of track 1 got its vector, the embedding call of the
\* second raised: the point was dropped, and the store still holds the stale point of
\* the first alias.
C17_Witness ==
    /\ RaisedBeforeUpsert
    /\ Last(results).mid = 1
    /\ aliases = <<<<"a">>, <<"b">>>>
    /\ Len(embLog) = 2 /\ Succeeded(embLog[1]) /\ embLog[1].vec.len = VECTOR_SIZE
    /\ embLog[2].kind = "raise"
    /\ Len(points) = 1
    /\ store = storeT /\ StalePoint \in store

\* The points of the batches of the upsert calls that returned, in call order.
RECURSIVE Submitted(_)
Submitted(log) ==
    IF log = <<>> THEN <<>>
    ELSE (IF Head(log).op = "upsert" /\ Head(log).ok THEN Head(log).batch ELSE <<>>)
         \o Submitted(Tail(log))

\* No two of the points submitted have the same id.
DistinctIds(pts) == \A a \in DOMAIN pts, b \in DOMAIN pts : a # b => pts[a].id # pts[b].id

\* The run is over, it began with an empty collection, and every upsert call returned.
CleanRun ==
    /\ pc = "done"
    /\ store0 = {}
    /\ \A k \in DOMAIN calls : calls[k].op = "upsert" => calls[k].ok

\* C18, as stated: after such a run the collection holds as many points as the
\* total reported.
C18_Original == CleanRun => Cardinality(store) = total

\* C18, amended: after such a run the total is the number of points submitted,
\* the collection holds one point per different id among them, so at most the
\* total, and exactly the total if and only if no two points submitted had the
\* same id (an alias twice in one list, or an id twice in the track list, is
\* counted twice and stored once).
C18_StoreCount ==
    CleanRun =>
        LET pts == Submitted(calls)
        IN  /\ total = Len(pts)
            /\ store = {pts[k] : k \in DOMAIN pts}
            /\ Cardinality(store) = Cardinality({pts[k].id : k \in DOMAIN pts})
            /\ Cardinality(store) <= total
            /\ Cardinality(store) = total <=> DistinctIds(pts)

\* C18, witness: a run that created the collection and upserted two points for each of
\* two tracks: four points counted and four stored.
C18_Witness ==
    /\ CleanRun
    /\ ~existed0
    /\ ids = <<1, 2>>
    /\ DistinctIds(Submitted(calls))
    /\ total = 4
    /\ Cardinality(store) = 4

\* ------------------------------------------------------- generate_uuid alone
\* Two (mid, alias) pairs are drawn, then generate_uuid is applied to each.
\* mid is the 'id' of a track-list item as json() gives it: an int or a str.
ProbeMids == {PyInt(2), PyInt(12), PyStr(<<"1">>), PyStr(<<"1", "-", "2">>)}
ProbeAliases == {<<"a">>, <<"b">>, <<"2", "-", "a">>}
ProbePairs == ProbeMids \X ProbeAliases

InitUuid ==
    /\ run = 1
    /\ pc = "uuid"
    /\ config = [key |-> "unset", host |-> "unset"]
    /\ ids = <<>> /\ i = 0
    /\ aliases = <<>> /\ j = 0 /\ points = <<>> /\ embLog = <<>>
    /\ total = 0 /\ results = <<>> /\ calls = <<>>
    /\ creates = <<>>
    /\ prev = NoPrev
    /\ collection = Absent /\ store = {} /\ store0 = {} /\ storeT = {}
    /\ existed0 = FALSE
    /\ script = NoScript
    /\ probe \in {[stage |-> "input", x |-> x, y |-> y, idx |-> NoText, idy |-> NoText] :
                     x \in ProbePairs, y \in ProbePairs}

Derive ==
    /\ pc = "uuid"
    /\ probe.stage = "input"
    /\ probe' = [probe EXCEPT !.stage = "derived",
                              !.idx = generate_uuid(probe.x[1], probe.x[2]),
                              !.idy = generate_uuid(probe.y[1], probe.y[2])]
    /\ UNCHANGED <<run, pc, config, ids, i, aliases, j, points, embLog, total, results,
                   calls, collection, store, store0, storeT, existed0, creates, script, prev>>

NextUuid == Derive

SpecUuid == InitUuid /\ [][NextUuid]_vars

\* C10, as stated: different (mid, alias) pairs get different ids.
C10_Original ==
    (probe.stage = "derived" /\ probe.x # probe.y) => probe.idx # probe.idy

\* The part of C10 the code keeps: for one mid, different aliases get different
\* ids; and so do different pairs whose mids are ints.
C10_FixedMid ==
    (probe.stage = "derived" /\ probe.x # probe.y
     /\ (probe.x[1] = probe.y[1] \/ (probe.x[1].t = "int" /\ probe.y[1].t = "int")))
        => probe.idx # probe.idy

====
